---- MODULE Spec2Model ----
(***************************************************************************)
(* Model of the secure DOM helpers (src/secure-dom.js and its variant with *)
(* the structured logger, src/unnamed/part_002).                           *)
(*                                                                         *)
(* Strings are run-length encoded: a string is a sequence of runs          *)
(* [s |-> unit, n |-> count], standing for the unit (a sequence of         *)
(* one-character strings) repeated count times.  This keeps strings of     *)
(* MAX_CONTENT_LENGTH characters small without changing their length.      *)
(***************************************************************************)
EXTENDS Integers, Sequences, FiniteSets, TLC

\* ------------------------------------------------------------------------
\* Bounds of the model
\* ------------------------------------------------------------------------
MaxChildren == 2

\* ------------------------------------------------------------------------
\* Characters and strings
\* ------------------------------------------------------------------------
LowerLetters ==
  <<"a","b","c","d","e","f","g","h","i","j","k","l","m",
    "n","o","p","q","r","s","t","u","v","w","x","y","z">>

UpperLetters ==
  <<"A","B","C","D","E","F","G","H","I","J","K","L","M",
    "N","O","P","Q","R","S","T","U","V","W","X","Y","Z">>

Range(f) == { f[i] : i \in DOMAIN f }

Letters == Range(LowerLetters) \cup Range(UpperLetters)

Digits == {"0","1","2","3","4","5","6","7","8","9"}

\* \w of a JavaScript regular expression
WordChars == Letters \cup Digits \cup {"_"}

IsLetter(c) == c \in Letters

IsWordChar(c) == c \in WordChars

\* String.prototype.toLowerCase on one character
LowerOf ==
  [c \in Range(UpperLetters) |->
     LowerLetters[CHOOSE i \in DOMAIN UpperLetters : UpperLetters[i] = c]]

LowerChar(c) == IF c \in DOMAIN LowerOf THEN LowerOf[c] ELSE c

ToLowerCase(cs) == [i \in DOMAIN cs |-> LowerChar(cs[i])]

\* String.prototype.startsWith on character sequences
StartsWith(cs, prefix) ==
  /\ Len(prefix) <= Len(cs)
  /\ \A i \in 1..Len(prefix) : cs[i] = prefix[i]

\* a string literal
Lit(cs) == IF Len(cs) = 0 THEN <<>> ELSE <<[s |-> cs, n |-> 1]>>

\* a character sequence repeated n times
Repeat(cs, n) == IF n = 0 \/ Len(cs) = 0 THEN <<>> ELSE <<[s |-> cs, n |-> n]>>

RECURSIVE Length(_)
Length(str) ==
  IF str = <<>> THEN 0
  ELSE Len(Head(str).s) * Head(str).n + Length(Tail(str))

\* String.prototype.substring(0, k)
RECURSIVE Substring0(_, _)
Substring0(str, k) ==
  IF str = <<>> \/ k <= 0 THEN <<>>
  ELSE LET r     == Head(str)
           whole == Len(r.s) * r.n
       IN IF whole <= k
          THEN <<r>> \o Substring0(Tail(str), k - whole)
          ELSE Repeat(r.s, k \div Len(r.s))
               \o Lit(SubSeq(r.s, 1, k % Len(r.s)))

\* one pass of String.prototype.replace(/c/g, rep) over a character sequence
RECURSIVE ReplaceChars(_, _, _)
ReplaceChars(cs, c, rep) ==
  IF cs = <<>> THEN <<>>
  ELSE (IF Head(cs) = c THEN rep ELSE <<Head(cs)>>)
       \o ReplaceChars(Tail(cs), c, rep)

ReplaceAll(str, c, rep) ==
  [i \in DOMAIN str |-> [s |-> ReplaceChars(str[i].s, c, rep), n |-> str[i].n]]

\* the five replacements with the one of '&' made last
escapeHtmlAmpersandLast(str) ==
  LET p1 == ReplaceAll(str, "<",  <<"&","l","t",";">>)
      p2 == ReplaceAll(p1,  ">",  <<"&","g","t",";">>)
      p3 == ReplaceAll(p2,  "\"", <<"&","q","u","o","t",";">>)
      p4 == ReplaceAll(p3,  "'",  <<"&","#","0","3","9",";">>)
  IN  ReplaceAll(p4, "&", <<"&","a","m","p",";">>)

escapeHtml(str) ==
  LET p1 == ReplaceAll(str, "&",  <<"&","a","m","p",";">>)
      p2 == ReplaceAll(p1,  "<",  <<"&","l","t",";">>)
      p3 == ReplaceAll(p2,  ">",  <<"&","g","t",";">>)
      p4 == ReplaceAll(p3,  "\"", <<"&","q","u","o","t",";">>)
  IN  ReplaceAll(p4, "'", <<"&","#","0","3","9",";">>)

\* ------------------------------------------------------------------------
\* SecurityConfig
\* ------------------------------------------------------------------------
ALLOWED_TAGS ==
  { <<"b">>, <<"i">>, <<"e","m">>, <<"s","t","r","o","n","g">>,
    <<"s","p","a","n">>, <<"p">>, <<"b","r">>, <<"d","i","v">>, <<"a">> }

A_class  == <<"c","l","a","s","s">>
A_id     == <<"i","d">>
A_data   == <<"d","a","t","a","-","*">>
A_href   == <<"h","r","e","f">>
A_target == <<"t","a","r","g","e","t">>
A_rel    == <<"r","e","l">>

ALLOWED_ATTR == { A_class, A_id, A_data, A_href, A_target, A_rel }

MAX_CONTENT_LENGTH == 5000

\* /^(?:https?:\/\/)?[\w.-]+\.[a-zA-Z]{2,}(?:\/[\w.-]*)*\/?$/
HostChars == WordChars \cup {".", "-"}

IsHostChar(c) == c \in HostChars

URL_PATTERN(url) ==
  \E p \in {0, 7, 8} :
    /\ p <= Len(url)
    /\ p = 7 => SubSeq(url, 1, 7) = <<"h","t","t","p",":","/","/">>
    /\ p = 8 => SubSeq(url, 1, 8) = <<"h","t","t","p","s",":","/","/">>
    /\ \E i \in (p + 1)..Len(url) : \E j \in (i + 2)..Len(url) :
         \* url[p+1..i-1] is the host, url[i] the dot, url[i+1..j] the letters
         /\ i - 1 >= p + 1
         /\ \A k \in (p + 1)..(i - 1) : IsHostChar(url[k])
         /\ url[i] = "."
         /\ j - i >= 2
         /\ \A k \in (i + 1)..j : IsLetter(url[k])
         /\ (j < Len(url)) => url[j + 1] = "/"
         /\ \A k \in (j + 1)..Len(url) : IsHostChar(url[k]) \/ url[k] = "/"

\* ------------------------------------------------------------------------
\* JavaScript values that reach the helpers
\* ------------------------------------------------------------------------
\* a string value, a number (5), null and undefined
StrVal(str)  == [t |-> "string", str |-> str]
NumVal       == [t |-> "number", str |-> <<>>]
Null         == [t |-> "null", str |-> <<>>]
Undefined    == [t |-> "undefined", str |-> <<>>]

\* ToBoolean
Truthy(v) == \/ v.t = "number"
             \/ v.t = "string" /\ Length(v.str) > 0

\* ToString, as setAttribute applies it to its value
ToStr(v) ==
  CASE v.t = "string"    -> v.str
    [] v.t = "number"    -> Lit(<<"5">>)
    [] v.t = "null"      -> Lit(<<"n","u","l","l">>)
    [] v.t = "undefined" -> Lit(<<"u","n","d","e","f","i","n","e","d">>)

\* the characters of a short string
RECURSIVE Chars(_)
Chars(str) ==
  IF str = <<>> THEN <<>>
  ELSE LET r == Head(str)
       IN  (IF r.n = 1 THEN r.s ELSE r.s \o Chars(<<[s |-> r.s, n |-> r.n - 1]>>))
           \o Chars(Tail(str))

\* ------------------------------------------------------------------------
\* Validator
\* ------------------------------------------------------------------------
\* the errors the helpers throw; "ok" is a normal return
E_InvalidTarget == "InvalidTarget"
E_InvalidInput  == "InvalidInput"
E_TooLong       == "InputTooLong"
E_Tag           == "DisallowedTag"
E_NoSanitizer   == "SanitizerUnavailable"
E_Reference     == "ReferenceError"
E_TypeError     == "TypeError"

\* element instanceof HTMLElement; the argument is "element" or "notElement"
validateElement(el) == IF el = "element" THEN "ok" ELSE E_InvalidTarget

\* validateInput without its length check
validateInputTypeOnly(v) == IF v.t # "string" THEN E_InvalidInput ELSE "ok"

validateInput(v) ==
  IF v.t # "string" THEN E_InvalidInput
  ELSE IF Length(v.str) > MAX_CONTENT_LENGTH THEN E_TooLong
  ELSE "ok"

isValidUrl(v) == URL_PATTERN(Chars(ToStr(v)))

\* ------------------------------------------------------------------------
\* Logger
\* ------------------------------------------------------------------------
\* A details object is a sequence of entries [k, t, s, n, o]: key k (a
\* character sequence) and a value of type t: "str" (s), "num" (n), "obj"
\* (the nested entries o), "null" or "undef".
K_error     == <<"e","r","r","o","r">>
K_url       == <<"u","r","l">>
K_original  == <<"o","r","i","g","i","n","a","l">>
K_sanitized == <<"s","a","n","i","t","i","z","e","d">>
K_type      == <<"t","y","p","e">>
K_length    == <<"l","e","n","g","t","h">>
K_content   == <<"c","o","n","t","e","n","t">>
K_config    == <<"c","o","n","f","i","g">>

StrEntry(k, str) == [k |-> k, t |-> "str", s |-> str, n |-> 0, o |-> <<>>]
NumEntry(k, num) == [k |-> k, t |-> "num", s |-> <<>>, n |-> num, o |-> <<>>]
ObjEntry(k, obj) == [k |-> k, t |-> "obj", s |-> <<>>, n |-> 0, o |-> obj]
NullEntry(k)     == [k |-> k, t |-> "null", s |-> <<>>, n |-> 0, o |-> <<>>]
UndefEntry(k)    == [k |-> k, t |-> "undef", s |-> <<>>, n |-> 0, o |-> <<>>]

\* the entry of a JavaScript value
ValEntry(k, v) ==
  CASE v.t = "string"    -> StrEntry(k, v.str)
    [] v.t = "number"    -> NumEntry(k, 5)
    [] v.t = "null"      -> NullEntry(k)
    [] v.t = "undefined" -> UndefEntry(k)

HasKey(details, k) == \E i \in DOMAIN details : details[i].k = k

Get(details, k) == details[CHOOSE i \in DOMAIN details : details[i].k = k]

LogSeverity == { "INFO", "WARN", "ERROR", "SECURITY" }

\* Object.values(LogEventType); it has no SECURITY member
LogEventType ==
  { "VALIDATION_ERROR", "CONTENT_SANITIZATION", "XSS_ATTEMPT",
    "DOM_MANIPULATION", "API_ERROR" }

sensitiveKeys ==
  { <<"p","a","s","s","w","o","r","d">>, <<"t","o","k","e","n">>,
    <<"s","e","c","r","e","t">>, <<"k","e","y">> }

REDACTED == Lit(<<"[","R","E","D","A","C","T","E","D","]">>)

Ellipsis == Lit(<<".",".",".">>)

MaxLogString == 1000

\* JSON.parse(JSON.stringify(data)): properties holding undefined are dropped
RECURSIVE JsonClone(_)
JsonClone(details) ==
  IF details = <<>> THEN <<>>
  ELSE LET e == Head(details)
       IN  (CASE e.t = "undef" -> <<>>
              [] e.t = "obj"   -> <<[e EXCEPT !.o = JsonClone(e.o)]>>
              [] OTHER         -> <<e>>)
           \o JsonClone(Tail(details))

RECURSIVE recursivelyRemoveSensitive(_)
recursivelyRemoveSensitive(details) ==
  [i \in DOMAIN details |->
     LET e == details[i]
     IN  IF ToLowerCase(e.k) \in sensitiveKeys THEN StrEntry(e.k, REDACTED)
         ELSE IF e.t = "obj"
              THEN [e EXCEPT !.o = recursivelyRemoveSensitive(e.o)]
              ELSE e]

RECURSIVE recursivelyTruncateStrings(_, _)
recursivelyTruncateStrings(details, maxLength) ==
  [i \in DOMAIN details |->
     LET e == details[i]
     IN  IF e.t = "str" /\ Length(e.s) > maxLength
         THEN [e EXCEPT !.s = Substring0(e.s, maxLength) \o Ellipsis]
         ELSE IF e.t = "obj"
              THEN [e EXCEPT !.o = recursivelyTruncateStrings(e.o, maxLength)]
              ELSE e]

sanitizeLogData(details) ==
  recursivelyTruncateStrings(
    recursivelyRemoveSensitive(JsonClone(details)), MaxLogString)

\* window._logSessionId is "" until the first structured log message; rnd is
\* the identifier Math.random() yields on that occasion
getSessionId(sid, rnd) == IF sid = "" THEN rnd ELSE sid

\* The two builds of the library differ in their Logger only.
BuildPlain      == "secure-dom.js"
BuildStructured == "part_002"

\* A program state st is [dom, log, sid, err]; env is [build, rnd, purify,
\* markdown].  An emitted event records the event type the sink receives,
\* whether the emitted message carries an event type at all, and the data.
PlainEvent(action, details) ==
  [action    |-> action,
   eventType |-> action,
   typed     |-> TRUE,
   severity  |-> "WARN",
   data      |-> details,
   sessionId |-> "",
   beacon    |-> FALSE]

\* the eventType that logSecurityEvent of the structured build keeps:
\* LogEventType.SECURITY is not a member of LogEventType, hence undefined
NormalizeEventType(eventType) ==
  IF eventType \in LogEventType THEN eventType ELSE "undefined"

StructuredEvent(action, details, sid, rnd) ==
  LET eventType == NormalizeEventType(action)
  IN  [action    |-> action,
       eventType |-> eventType,
       \* JSON.stringify leaves out a property whose value is undefined
       typed     |-> eventType # "undefined",
       severity  |-> "SECURITY",
       data      |-> sanitizeLogData(details),
       sessionId |-> getSessionId(sid, rnd),
       beacon    |-> TRUE]

logSecurityEvent(st, env, action, details) ==
  IF env.build = BuildPlain
  THEN [st EXCEPT !.log = Append(@, PlainEvent(action, details))]
  ELSE [st EXCEPT !.log = Append(@, StructuredEvent(action, details, st.sid, env.rnd)),
                  !.sid = getSessionId(st.sid, env.rnd)]

\* throw err out of the current function
Throw(st, err) == [st EXCEPT !.err = err]

\* { error: error.message }; the message is kept as one opaque unit
ErrorDetails(err) == <<StrEntry(K_error, Lit(<<err>>))>>

\* ------------------------------------------------------------------------
\* DOM
\* ------------------------------------------------------------------------
\* A node is [kind, tag, attrs, text, listener]: attrs is a set of
\* <<name, value>> pairs with distinct names, text the text content, and
\* listener the click listener with the config its closure holds.
NoListener == [attached |-> FALSE, onClick |-> "undefined", action |-> Undefined]

TextNode(str) ==
  [kind |-> "text", tag |-> <<"#","t","e","x","t">>, attrs |-> {},
   text |-> str, listener |-> NoListener]

ElemNode(tag, attrs, str) ==
  [kind |-> "elem", tag |-> tag, attrs |-> attrs, text |-> str,
   listener |-> NoListener]

\* Element.setAttribute on a set of attributes
SetAttr(attrs, k, str) == { a \in attrs : a[1] # k } \cup { <<k, str>> }

HasAttr(attrs, k) == \E a \in attrs : a[1] = k

\* Element.getAttribute; <<>> stands for null (and for the empty string,
\* which is as falsy as null)
GetAttr(attrs, k) ==
  IF HasAttr(attrs, k) THEN (CHOOSE a \in attrs : a[1] = k)[2] ELSE <<>>

\* the children after element.textContent = str
TextContent(str) == IF Length(str) = 0 THEN <<>> ELSE <<TextNode(str)>>

\* an appendChild that attaches a copy of children[i]
AppendCopy(children, i) == Append(children, children[i])

\* Node.appendChild of a node that already is the child at index i: the node
\* moves to the end
MoveToEnd(children, i) ==
  [j \in 1..Len(children) |->
     IF j < i THEN children[j]
     ELSE IF j < Len(children) THEN children[j + 1]
     ELSE children[i]]

\* ------------------------------------------------------------------------
\* The markup sanitizer (DOMPurify), an external collaborator
\* ------------------------------------------------------------------------
BoldNode   == ElemNode(<<"b">>, {}, Lit(<<"h","i">>))

ScriptNode == ElemNode(<<"s","c","r","i","p","t">>, {}, Lit(<<"x">>))

GoodUrl    == Lit(<<"h","t","t","p","s",":","/","/","a",".","i","o">>)

LinkNode   == ElemNode(<<"a">>, { <<A_href, GoodUrl>> }, Lit(<<"x">>))

KnownElems == { BoldNode, ScriptNode, LinkNode }

RECURSIVE SerializeAttrs(_)
SerializeAttrs(attrs) ==
  IF attrs = {} THEN <<>>
  ELSE LET a == CHOOSE x \in attrs : TRUE
       IN  <<" ">> \o a[1] \o <<"=", "\"">> \o Chars(a[2]) \o <<"\"">>
           \o SerializeAttrs(attrs \ {a})

\* the markup of a node
SerializeNode(nd) ==
  IF nd.kind = "text" THEN Chars(nd.text)
  ELSE <<"<">> \o nd.tag \o SerializeAttrs(nd.attrs) \o <<">">>
       \o Chars(nd.text) \o <<"<","/">> \o nd.tag \o <<">">>

HtmlBold   == Lit(SerializeNode(BoldNode))
HtmlScript == Lit(SerializeNode(ScriptNode))
HtmlLink   == Lit(SerializeNode(LinkNode))

\* the element each known markup unit spells
KnownMarkup ==
  [u \in { SerializeNode(nd) : nd \in KnownElems } |->
     CHOOSE nd \in KnownElems : SerializeNode(nd) = u]

RECURSIVE Copies(_, _)
Copies(nd, n) == IF n = 0 THEN <<>> ELSE <<nd>> \o Copies(nd, n - 1)

\* the parser of the sanitizer: a run spelling the markup of a known element
\* yields that element, any other run is text
RECURSIVE ParseHtml(_)
ParseHtml(html) ==
  IF html = <<>> THEN <<>>
  ELSE LET r    == Head(html)
           rest == ParseHtml(Tail(html))
       IN  IF r.s \in DOMAIN KnownMarkup
           THEN Copies(KnownMarkup[r.s], r.n) \o rest
           \* adjacent text is one text node
           ELSE IF rest # <<>> /\ Head(rest).kind = "text"
                THEN <<TextNode(<<r>> \o Head(rest).text)>> \o Tail(rest)
                ELSE <<TextNode(<<r>>)>> \o rest

\* an allow-list or forbid-list entry ending in * matches by prefix
WildMatch(key, entry) ==
  IF Len(entry) > 0 /\ entry[Len(entry)] = "*"
  THEN StartsWith(key, SubSeq(entry, 1, Len(entry) - 1))
  ELSE key = entry

FORBID_TAGS ==
  { <<"s","c","r","i","p","t">>, <<"s","t","y","l","e">>,
    <<"i","f","r","a","m","e">>, <<"o","b","j","e","c","t">>,
    <<"e","m","b","e","d">>, <<"f","o","r","m">> }

FORBID_ATTR ==
  { <<"o","n","*">>, <<"s","t","y","l","e">>, A_href, <<"s","r","c">> }

\* the configuration of the call whose fragment is attached
CleanConfig ==
  [ALLOWED_TAGS |-> ALLOWED_TAGS, ALLOWED_ATTR |-> ALLOWED_ATTR,
   FORBID_TAGS |-> FORBID_TAGS, FORBID_ATTR |-> FORBID_ATTR,
   RETURN_DOM_FRAGMENT |-> TRUE]

\* the configuration of the call whose string is compared with the input
LogConfig ==
  [ALLOWED_TAGS |-> ALLOWED_TAGS, ALLOWED_ATTR |-> ALLOWED_ATTR,
   FORBID_TAGS |-> {}, FORBID_ATTR |-> {},
   RETURN_DOM_FRAGMENT |-> FALSE]

SanitizeNode(nd, cfg) ==
  [nd EXCEPT !.attrs =
     { a \in nd.attrs :
         /\ \E e \in cfg.ALLOWED_ATTR : WildMatch(a[1], e)
         /\ ~ \E e \in cfg.FORBID_ATTR : WildMatch(a[1], e) }]

KeepsNode(nd, cfg) ==
  \/ nd.kind = "text"
  \/ /\ ToLowerCase(nd.tag) \in cfg.ALLOWED_TAGS
     /\ ToLowerCase(nd.tag) \notin cfg.FORBID_TAGS

\* the nodes DOMPurify.sanitize(html, cfg) keeps
SanitizeToNodes(html, cfg) ==
  LET kept == SelectSeq(ParseHtml(html), LAMBDA nd : KeepsNode(nd, cfg))
  IN  [i \in DOMAIN kept |-> SanitizeNode(kept[i], cfg)]

\* adjacent runs of the same unit are one run
RECURSIVE Norm(_)
Norm(str) ==
  IF Len(str) < 2 THEN str
  ELSE IF str[1].s = str[2].s
       THEN Norm(<<[s |-> str[1].s, n |-> str[1].n + str[2].n]>>
                 \o SubSeq(str, 3, Len(str)))
       ELSE <<str[1]>> \o Norm(Tail(str))

RECURSIVE SerializeNodes(_)
SerializeNodes(nodes) ==
  IF nodes = <<>> THEN <<>>
  ELSE (IF Head(nodes).kind = "text" THEN Head(nodes).text
        ELSE Lit(SerializeNode(Head(nodes))))
       \o SerializeNodes(Tail(nodes))

\* DOMPurify.sanitize(html, cfg) returning a string
SanitizeToString(html, cfg) == Norm(SerializeNodes(SanitizeToNodes(html, cfg)))

\* markdownToHtml is not defined by the library; a page that defines it
\* wraps the converted text in a paragraph
markdownToHtml(str) ==
  Lit(<<"<","p",">">>) \o str \o Lit(<<"<","/","p",">">>)

\* ------------------------------------------------------------------------
\* The helpers.  Each takes the program state st = [dom, log, sid, err, ret]
\* with st.err = "ok" and yields the state after the call: err is the error
\* thrown to the caller ("ok" for a normal return) and ret the index, in
\* dom.children, of the node the call returns.
\* ------------------------------------------------------------------------
setTextContent(st, env, el, content) ==
  LET e1 == validateElement(el)
      e2 == IF e1 = "ok" THEN validateInput(content) ELSE e1
  IN  IF e2 = "ok"
      THEN [st EXCEPT !.dom.children = TextContent(content.str)]
      ELSE Throw(logSecurityEvent(st, env, "setText-error", ErrorDetails(e2)), e2)

createSafeTextNode(st, env, el, content) ==
  LET e1 == validateElement(el)
      e2 == IF e1 = "ok" THEN validateInput(content) ELSE e1
  IN  IF e2 = "ok"
      THEN [st EXCEPT !.dom.children = Append(@, TextNode(content.str)),
                      !.ret = Len(st.dom.children) + 1]
      ELSE Throw(logSecurityEvent(st, env, "createTextNode-error", ErrorDetails(e2)), e2)

\* SecurityConfig.ALLOWED_ATTR.includes(key)
AttrKeyAllowed(key) == key \in ALLOWED_ATTR

\* the forEach over Object.entries(options.attributes): r is [st, element]
RECURSIVE ApplyAttributes(_, _, _)
ApplyAttributes(r, env, entries) ==
  IF entries = <<>> THEN r
  ELSE LET key   == Head(entries)[1]
           value == Head(entries)[2]
           r1 == IF AttrKeyAllowed(key)
                 THEN IF key = A_href /\ ~ isValidUrl(value)
                      THEN [r EXCEPT !.st = logSecurityEvent(r.st, env, "invalid-url",
                                                             <<ValEntry(K_url, value)>>)]
                      ELSE [r EXCEPT !.element.attrs = SetAttr(@, key, ToStr(value))]
                 ELSE r
       IN  ApplyAttributes(r1, env, Tail(entries))

\* typeof tagName === 'string' &&
\* SecurityConfig.ALLOWED_TAGS.includes(tagName.toLowerCase())
TagAllowed(tagName) ==
  /\ tagName.t = "string"
  /\ ToLowerCase(Chars(tagName.str)) \in ALLOWED_TAGS

\* options is [text, attributes]: attributes is the sequence of entries of
\* options.attributes, <<>> when there are none
createElement(st, env, el, tagName, options) ==
  LET e1 == validateElement(el)
      e2 == IF e1 # "ok" THEN e1
            ELSE IF ~ TagAllowed(tagName) THEN E_Tag ELSE "ok"
      e3 == IF e2 # "ok" THEN e2
            ELSE IF Truthy(options.text) THEN validateInput(options.text) ELSE "ok"
  IN  IF e3 = "ok"
      THEN LET element == ElemNode(ToLowerCase(Chars(tagName.str)), {},
                                   IF Truthy(options.text) THEN options.text.str ELSE <<>>)
               r == ApplyAttributes([st |-> st, element |-> element], env,
                                    options.attributes)
           IN  [r.st EXCEPT !.dom.children = Append(@, r.element),
                            !.ret = Len(st.dom.children) + 1]
      ELSE Throw(logSecurityEvent(st, env, "createElement-error", ErrorDetails(e3)), e3)

\* the fragment of a call made with the configuration of the logged string
CleanFragmentUnrestricted(html) == SanitizeToNodes(html, LogConfig)

\* the fragment that setSanitizedHTML attaches
CleanFragment(html) == SanitizeToNodes(html, CleanConfig)

\* the string that setSanitizedHTML compares with its input
SanitizedHTML(html) == SanitizeToString(html, LogConfig)

\* a page on which the sanitizer is taken to be defined at every call
DOMPurifyAssumed(env) == TRUE

\* typeof DOMPurify !== 'undefined'
DOMPurifyDefined(env) == env.purify

setSanitizedHTML(st, env, el, html) ==
  LET e1 == validateElement(el)
      e2 == IF e1 = "ok" THEN validateInput(html) ELSE e1
      e3 == IF e2 # "ok" THEN e2
            ELSE IF ~ DOMPurifyDefined(env) THEN E_NoSanitizer ELSE "ok"
  IN  IF e3 = "ok"
      THEN LET cleanFragment == CleanFragment(html.str)
               sanitizedHTML == SanitizedHTML(html.str)
               st1 == IF sanitizedHTML # Norm(html.str)
                      THEN logSecurityEvent(st, env, "content-sanitized",
                             << StrEntry(K_original, html.str),
                                StrEntry(K_sanitized, sanitizedHTML) >>)
                      ELSE st
           IN  [st1 EXCEPT !.dom.children = cleanFragment]
      ELSE Throw(logSecurityEvent(st, env, "setHTML-error", ErrorDetails(e3)), e3)

\* options.plainText ? 'text' : (options.allowHtml ? 'html' : 'escaped')
RenderedType(options) ==
  IF options.plainText THEN <<"t","e","x","t">>
  ELSE IF options.allowHtml THEN <<"h","t","m","l">>
  ELSE <<"e","s","c","a","p","e","d">>

\* the strategy branch of renderRichContent
RenderBranch(st, env, el, content, options) ==
  IF options.plainText THEN setTextContent(st, env, el, content)
  ELSE IF options.allowHtml THEN setSanitizedHTML(st, env, el, content)
  ELSE IF options.markdown
       THEN IF env.markdown
            THEN setSanitizedHTML(st, env, el, StrVal(markdownToHtml(content.str)))
            ELSE Throw(st, E_Reference)
       ELSE LET r == createSafeTextNode(st, env, el, StrVal(escapeHtml(content.str)))
            IN  IF r.err = "ok"
                THEN [r EXCEPT !.dom.children = MoveToEnd(@, r.ret)]
                ELSE r

\* options is [plainText, allowHtml, markdown], each a truth value
renderRichContent(st, env, el, content, options) ==
  LET e1 == validateElement(el)
      e2 == IF e1 = "ok" THEN validateInput(content) ELSE e1
      r  == IF e2 = "ok" THEN RenderBranch(st, env, el, content, options)
            ELSE Throw(st, e2)
  IN  IF r.err = "ok"
      THEN LET r1 == IF r.dom.tagName = "A"
                     THEN [r EXCEPT !.dom.attrs =
                             SetAttr(@, A_rel,
                               Lit(<<"n","o","o","p","e","n","e","r"," ",
                                     "n","o","r","e","f","e","r","r","e","r">>))]
                     ELSE r
           IN  [logSecurityEvent(r1, env, "content-rendered",
                  << StrEntry(K_type, Lit(RenderedType(options))),
                     NumEntry(K_length, Length(content.str)) >>)
                EXCEPT !.ret = 0]
      \* the catch block evaluates content.substring(0, 100) before it logs
      ELSE IF content.t = "string"
           THEN Throw(logSecurityEvent(r, env, "render-error",
                        << StrEntry(K_error, Lit(<<r.err>>)),
                           StrEntry(K_content, Substring0(content.str, 100) \o Ellipsis) >>),
                      r.err)
           ELSE Throw(r, E_TypeError)

\* JSON.stringify(config), reduced to the text it carries
StringifyConfig(config) ==
  Lit(<<"{">>) \o (IF config.text.t = "string" THEN config.text.str ELSE <<>>)
  \o Lit(<<"}">>)

K_dataAction == <<"d","a","t","a","-","a","c","t","i","o","n">>

\* a default tag that is spelled like no allowed tag
DefaultTagUnlisted == StrVal(Lit(<<"d","i","v","s">>))

\* config.tag || 'div'
DefaultTag == StrVal(Lit(<<"d","i","v">>))

\* config is [tag, text, className, id, action, onClick]; onClick is
\* "undefined", "function" or "other" (a truthy value that is no function)
createSecureInteractiveElement(st, env, el, config) ==
  LET r == createElement(st, env, el,
             IF Truthy(config.tag) THEN config.tag ELSE DefaultTag,
             [text |-> config.text,
              attributes |-> << <<A_class, config.className>>,
                                <<A_id, config.id>>,
                                <<K_dataAction, config.action>> >>])
  IN  IF r.err = "ok"
      THEN IF config.onClick # "undefined"
           THEN [r EXCEPT !.dom.children[r.ret].listener =
                            [attached |-> TRUE, onClick |-> config.onClick,
                             action |-> config.action]]
           ELSE r
      ELSE Throw(logSecurityEvent(r, env, "create-element-error",
                   << StrEntry(K_error, Lit(<<r.err>>)),
                      StrEntry(K_config, StringifyConfig(config)) >>),
                 r.err)

\* the click listener of createSecureInteractiveElement, run for a click on
\* node nd: the number of calls of config.onClick it makes
ClickListener(nd) ==
  LET action == GetAttr(nd.attrs, K_dataAction)
  IN  IF Length(action) > 0 /\ nd.listener.onClick = "function" THEN 1 ELSE 0

\* ------------------------------------------------------------------------
\* The inputs of the calls
\* ------------------------------------------------------------------------
V_short  == StrVal(Lit(<<"a">>))
V_max    == StrVal(Repeat(<<"a">>, MAX_CONTENT_LENGTH))
V_long   == StrVal(Repeat(<<"a">>, MAX_CONTENT_LENGTH + 1))
V_amp    == StrVal(Repeat(<<"&">>, 1001))
V_bold   == StrVal(HtmlBold)
V_script == StrVal(HtmlBold \o HtmlScript)
V_link   == StrVal(HtmlLink)

Targets == { "element", "notElement" }

TextContents == { V_short, V_max, V_long, NumVal }

HtmlContents == { V_bold, V_script, V_link, V_long, NumVal }

RichContents == { V_short, V_long, V_amp, V_script, V_link, NumVal }

T_div    == StrVal(Lit(<<"d","i","v">>))
T_DIV    == StrVal(Lit(<<"D","I","V">>))
T_script == StrVal(Lit(<<"s","c","r","i","p","t">>))
T_SCRIPT == StrVal(Lit(<<"S","C","R","I","P","T">>))
T_empty  == StrVal(<<>>)

TagNames == { T_div, T_DIV, T_script, T_SCRIPT, T_empty, NumVal, Undefined }

BadUrl ==
  StrVal(Lit(<<"j","a","v","a","s","c","r","i","p","t",":",
               "a","l","e","r","t","(","1",")">>))

V_go == StrVal(Lit(<<"g","o">>))

K_onclick == <<"o","n","c","l","i","c","k">>

Attrs_bad ==
  << <<A_href, BadUrl>>, <<A_class, V_short>>, <<K_dataAction, V_go>> >>

Attrs_good ==
  << <<A_href, StrVal(GoodUrl)>>, <<K_onclick, V_short>> >>

AttributeSets == { <<>>, Attrs_bad, Attrs_good }

ElementTexts == { Undefined, V_short, V_long, NumVal }

\* the calls of createElement: every tag, every text and every set of
\* attributes with the other arguments at their simplest, and the
\* combinations in which two checks compete
CreateElementInputs ==
  ([tagName : TagNames, text : {Undefined}, attributes : {<<>>}]
   \cup [tagName : {T_div}, text : ElementTexts, attributes : {<<>>}]
   \cup [tagName : {T_div}, text : {Undefined}, attributes : AttributeSets]
   \cup [tagName : {T_script, NumVal}, text : {V_long}, attributes : {Attrs_bad}]
   \cup [tagName : {T_DIV}, text : {V_short, V_long}, attributes : {Attrs_bad}])

RenderOptions ==
  { [plainText |-> TRUE,  allowHtml |-> FALSE, markdown |-> FALSE],
    [plainText |-> FALSE, allowHtml |-> TRUE,  markdown |-> FALSE],
    [plainText |-> FALSE, allowHtml |-> FALSE, markdown |-> TRUE],
    [plainText |-> FALSE, allowHtml |-> FALSE, markdown |-> FALSE],
    [plainText |-> TRUE,  allowHtml |-> TRUE,  markdown |-> TRUE] }

\* the configs of createSecureInteractiveElement, chosen like the calls of
\* createElement
Configs ==
  ([tag : { Undefined, Null, T_DIV, T_script, T_empty, NumVal },
    text : { Undefined }, className : { Undefined }, id : { V_short },
    action : { V_go }, onClick : { "function" }]
   \cup [tag : { Undefined, T_script }, text : { V_short, V_long },
         className : { Undefined }, id : { V_short },
         action : { V_go }, onClick : { "function" }]
   \cup [tag : { Undefined }, text : { Undefined },
         className : { Undefined }, id : { V_short },
         action : { Undefined, V_go },
         onClick : { "undefined", "function", "other" }])

\* <&'">a
V_special == StrVal(Lit(<<"<","&","'","\"",">","a">>))
V_empty   == StrVal(<<>>)
V_amp1000 == StrVal(Repeat(<<"&">>, MAX_CONTENT_LENGTH \div 5))

\* the arguments of direct calls of escapeHtml
EscapeInputs == { V_empty, V_special, V_amp, V_link, NumVal }

\* neither plainText nor allowHtml nor markdown is set
IsDefaultMode(options) ==
  ~ options.plainText /\ ~ options.allowHtml /\ ~ options.markdown

\* the contents rendered in the default mode: plain text, markup, 1000 and
\* 1001 ampersands (escaped: exactly MAX_CONTENT_LENGTH, and 5 more)
EscapedContents == { V_short, V_long, V_amp1000, V_amp, V_link, NumVal }

\* the contents converted by markdownToHtml
MarkdownContents == { V_short, V_script, V_long, NumVal }

\* the calls of renderRichContent: for each strategy its contents, and
\* whether DOMPurify and markdownToHtml are defined where the strategy
\* looks for them
RenderInputs ==
  ([options : { o \in RenderOptions : o.plainText /\ ~ o.allowHtml },
    content : RichContents, purify : {FALSE}, markdown : {FALSE}]
   \cup [options : { o \in RenderOptions : o.plainText /\ o.allowHtml },
         content : { V_script, NumVal }, purify : {FALSE}, markdown : {FALSE}]
   \cup [options : { o \in RenderOptions : ~ o.plainText /\ o.allowHtml },
         content : RichContents, purify : BOOLEAN, markdown : {FALSE}]
   \cup { i \in [options : { o \in RenderOptions :
                                ~ o.plainText /\ ~ o.allowHtml /\ o.markdown },
                  content : MarkdownContents, purify : BOOLEAN, markdown : BOOLEAN] :
             i.purify => i.markdown }
   \cup [options : { o \in RenderOptions : IsDefaultMode(o) },
         content : EscapedContents, purify : {FALSE}, markdown : {FALSE}])

\* the identifier Math.random() yields; no operation depends on its value
SessionIds == { "s1" }

EventTypes ==
  LogEventType \cup { "invalid-url", "content-sanitized", "content-rendered" }

\* { password: "p@ss", note: "x".repeat(2000) }
D_password ==
  << StrEntry(<<"p","a","s","s","w","o","r","d">>, Lit(<<"p","@","s","s">>)),
     StrEntry(<<"n","o","t","e">>, Repeat(<<"x">>, 2 * MaxLogString)) >>

\* { config: { ToKeN: { url: "a" }, apiKey: "a", note: "x".repeat(1001),
\*             url: "x".repeat(1000), type: undefined }, length: 5 }
D_nested ==
  << ObjEntry(K_config,
       << ObjEntry(<<"T","o","K","e","N">>, <<StrEntry(K_url, V_short.str)>>),
          StrEntry(<<"a","p","i","K","e","y">>, V_short.str),
          StrEntry(<<"n","o","t","e">>, Repeat(<<"x">>, MaxLogString + 1)),
          StrEntry(K_url, Repeat(<<"x">>, MaxLogString)),
          UndefEntry(K_type) >>),
     NumEntry(K_length, 5) >>

DetailsSets == { <<>>, <<StrEntry(K_url, V_short.str)>>, D_password, D_nested }

\* the direct calls of Logger.logSecurityEvent: every event type with the
\* simplest details, every details object with one event type
LogInputs ==
  ([eventType : EventTypes, details : { <<StrEntry(K_url, V_short.str)>> }]
   \cup [eventType : { "invalid-url" }, details : DetailsSets])

\* ------------------------------------------------------------------------
\* The state machine
\* ------------------------------------------------------------------------
VARIABLES
  dom,    \* the target element: [tagName, children, attrs]
  log,    \* the security events emitted during the most recent call
  sid,    \* window._logSessionId, "" while unset
  build,  \* which of the two builds of the library is loaded
  last    \* the call the caller is looking at: its arguments, its outcome
          \* and the dom before it; [op |-> "none"] between two calls

vars == <<dom, log, sid, build, last>>

Idle == [op |-> "none", err |-> "ok"]

InitDom == [tagName : {"DIV", "A"}, children : {<<>>}, attrs : {{}}]

\* the page loads src/secure-dom.js
Init ==
  /\ dom \in InitDom
  /\ log = <<>>
  /\ sid = ""
  /\ build = BuildPlain
  /\ last = Idle

\* the page loads the build with the structured logger
InitStructured ==
  /\ dom \in InitDom
  /\ log = <<>>
  /\ sid = ""
  /\ build = BuildStructured
  /\ last = Idle

\* the state a call starts from
Start == [dom |-> dom, log |-> <<>>, sid |-> sid, err |-> "ok", ret |-> 0]

\* Math.random() is consulted only while the session id is unset
Rnd == IF build = BuildStructured /\ sid = "" THEN SessionIds ELSE {""}

Env(rnd, purify, markdown) ==
  [build |-> build, rnd |-> rnd, purify |-> purify, markdown |-> markdown]

\* the arguments of the calls made with the target el: a target that is
\* not an element fails validateElement, the first statement of every
\* operation, so those calls are made with few arguments
Few(el, all, few) == IF el = "element" THEN all ELSE few

\* the caller makes a call once it is done with the previous one
\* (last = Idle); the call is taken when its result fits the bound on the
\* children
Finish(r, call) ==
  /\ Len(r.dom.children) <= MaxChildren
  /\ dom' = r.dom
  /\ log' = r.log
  /\ sid' = r.sid
  /\ last' = call @@ [err |-> r.err, ret |-> r.ret, pre |-> dom]
  /\ UNCHANGED build

SetTextContentCall ==
  /\ last = Idle
  /\ \E el \in Targets, rnd \in Rnd :
    \E content \in Few(el, TextContents, { V_long }) :
    \E r \in { setTextContent(Start, Env(rnd, FALSE, FALSE), el, content) } :
      Finish(r, [op |-> "setTextContent", el |-> el, content |-> content])

CreateSafeTextNodeCall ==
  /\ last = Idle
  /\ \E el \in Targets, rnd \in Rnd :
    \E content \in Few(el, TextContents, { V_long }) :
    \E r \in { createSafeTextNode(Start, Env(rnd, FALSE, FALSE), el, content) } :
      Finish(r, [op |-> "createSafeTextNode", el |-> el, content |-> content])

CreateElementCall ==
  /\ last = Idle
  /\ \E el \in Targets, rnd \in Rnd :
    \E in \in Few(el, CreateElementInputs,
                  [tagName : {T_div, T_script}, text : {V_long},
                   attributes : {Attrs_bad}]) :
    LET options == [text |-> in.text, attributes |-> in.attributes]
    IN  \E r \in { createElement(Start, Env(rnd, FALSE, FALSE), el, in.tagName, options) } :
          Finish(r, [op |-> "createElement", el |-> el, tagName |-> in.tagName,
                     options |-> options])

\* purify tells whether DOMPurify is defined when the call is made
SetSanitizedHTMLCall ==
  /\ last = Idle
  /\ \E el \in Targets, purify \in BOOLEAN, rnd \in Rnd :
    \E html \in Few(el, HtmlContents, { V_long }) :
    \E r \in { setSanitizedHTML(Start, Env(rnd, purify, FALSE), el, html) } :
      Finish(r, [op |-> "setSanitizedHTML", el |-> el, content |-> html,
                 purify |-> purify])

\* markdown tells whether the page defines markdownToHtml
RenderRichContentCall ==
  /\ last = Idle
  /\ \E el \in Targets, rnd \in Rnd :
    \E in \in Few(el, RenderInputs,
                  { i \in RenderInputs : i.content \in { V_long, NumVal }
                                          /\ ~ i.options.plainText /\ ~ i.purify }) :
    \E r \in { renderRichContent(Start, Env(rnd, in.purify, in.markdown), el,
                                  in.content, in.options) } :
      Finish(r, [op |-> "renderRichContent", el |-> el, content |-> in.content,
                 options |-> in.options, purify |-> in.purify,
                 markdown |-> in.markdown])

CreateSecureInteractiveElementCall ==
  /\ last = Idle
  /\ \E el \in Targets, rnd \in Rnd :
    \E config \in Few(el, Configs, { c \in Configs : c.text = V_long }) :
    \E r \in { createSecureInteractiveElement(Start, Env(rnd, FALSE, FALSE), el, config) } :
      Finish(r, [op |-> "createSecureInteractiveElement", el |-> el,
                 config |-> config])

\* a direct call of Logger.logSecurityEvent
LogSecurityEventCall ==
  /\ last = Idle
  /\ \E in \in LogInputs, rnd \in Rnd :
    \E r \in { logSecurityEvent(Start, Env(rnd, FALSE, FALSE), in.eventType, in.details) } :
      Finish(r, [op |-> "logSecurityEvent", eventType |-> in.eventType,
                 details |-> in.details])

\* a direct call of escapeHtml; a value without a replace method makes
\* str.replace(...) throw a TypeError
EscapeHtmlCall ==
  /\ last = Idle
  /\ \E v \in EscapeInputs :
       last' = [op |-> "escapeHtml", str |-> v, times |-> 1, first |-> v,
                err |-> IF v.t = "string" THEN "ok" ELSE E_TypeError,
                ret |-> IF v.t = "string" THEN StrVal(escapeHtml(v.str))
                        ELSE Undefined]
  /\ log' = <<>>
  /\ UNCHANGED <<dom, sid, build>>

\* the caller passes the string escapeHtml returned to escapeHtml again
EscapeHtmlAgain ==
  /\ last.op = "escapeHtml"
  /\ last.err = "ok"
  /\ last.times = 1
  /\ last' = [last EXCEPT !.str = last.ret, !.times = 2,
                          !.ret = StrVal(escapeHtml(last.ret.str))]
  /\ UNCHANGED <<dom, log, sid, build>>

\* a click event delivered to the child element at index i
Click ==
  \E i \in DOMAIN dom.children :
    /\ last = Idle
    /\ dom.children[i].kind = "elem"
    /\ last' = [op |-> "click", err |-> "ok", index |-> i, node |-> dom.children[i],
                invoked |-> IF dom.children[i].listener.attached
                            THEN ClickListener(dom.children[i]) ELSE 0]
    /\ log' = <<>>
    /\ UNCHANGED <<dom, sid, build>>

\* the caller has dealt with the outcome of its call and goes on
Resume ==
  /\ last # Idle
  /\ last' = Idle
  /\ log' = <<>>
  /\ UNCHANGED <<dom, sid, build>>

Next ==
  \/ SetTextContentCall
  \/ CreateSafeTextNodeCall
  \/ CreateElementCall
  \/ SetSanitizedHTMLCall
  \/ RenderRichContentCall
  \/ CreateSecureInteractiveElementCall
  \/ LogSecurityEventCall
  \/ EscapeHtmlCall
  \/ EscapeHtmlAgain
  \/ Click
  \/ Resume

Spec == Init /\ [][Next]_vars

SpecStructured == InitStructured /\ [][Next]_vars

\* ------------------------------------------------------------------------
\* Properties
\* ------------------------------------------------------------------------
RenderOps ==
  { "setTextContent", "createSafeTextNode", "createElement",
    "setSanitizedHTML", "renderRichContent", "createSecureInteractiveElement" }

\* the text content handed to the call the caller is looking at
ContentArg ==
  CASE last.op = "createElement" -> last.options.text
    [] last.op = "createSecureInteractiveElement" -> last.config.text
    [] OTHER -> last.content

IsTooLong(v) == v.t = "string" /\ Length(v.str) > MAX_CONTENT_LENGTH

\* tag is a string whose lower-cased form is a member of ALLOWED_TAGS
LowerCasedTagListed(tag) ==
  /\ tag.t = "string"
  /\ \E a \in ALLOWED_TAGS : a = ToLowerCase(Chars(tag.str))

\* the tag argument of the call, if it has one, passes the tag check
TagCheckPasses ==
  CASE last.op = "createElement" -> LowerCasedTagListed(last.tagName)
    [] last.op = "createSecureInteractiveElement" ->
         ~ Truthy(last.config.tag) \/ LowerCasedTagListed(last.config.tag)
    [] OTHER -> TRUE

C2_FailuresLoggedBeforeThrown ==
  (last.op \in RenderOps /\ last.err # "ok") =>
     /\ Len(log) >= 1
     /\ (last.op = "renderRichContent" /\ last.el = "element"
         /\ last.content.t # "string") => last.err = E_InvalidInput

\* an attribute key is an exact member of ALLOWED_ATTR or starts with the
\* prefix of one of its wildcard entries
AttrListed(key) == \E e \in ALLOWED_ATTR : WildMatch(key, e)

\* the element a successful createElement call has returned
Created == dom.children[last.ret]

\* C3: createElement sets a supplied attribute on the created element
\* exactly when its key is an exact member of ALLOWED_ATTR or matches a
\* wildcard entry such as data-* (an href with an invalid URL aside).
C3_AttributeSetIffListed ==
  (last.op = "createElement" /\ last.err = "ok") =>
     \A i \in DOMAIN last.options.attributes :
        LET key   == last.options.attributes[i][1]
            value == last.options.attributes[i][2]
        IN  \/ key = A_href /\ ~ URL_PATTERN(Chars(ToStr(value)))
            \/ HasAttr(Created.attrs, key) <=> AttrListed(key)

\* C4: a click delivered to an element that createSecureInteractiveElement
\* created with a non-empty config.action and a function config.onClick
\* invokes config.onClick exactly once.
C4_ClickInvokesHandlerOnce ==
  ( /\ last.op = "click"
    /\ last.node.listener.attached
    /\ last.node.listener.onClick = "function"
    /\ Truthy(last.node.listener.action) ) => last.invoked = 1

EventsOf(action) == SelectSeq(log, LAMBDA e : e.action = action)

\* C5: a successful setSanitizedHTML call emits content-sanitized exactly
\* when the content it attached differs from its input: once, with the
\* input and the attached form, when they differ, and not at all when they
\* are equal.
C5_SanitizedEventIffAttachedDiffers ==
  (last.op = "setSanitizedHTML" /\ last.err = "ok") =>
     LET attached == Norm(SerializeNodes(dom.children))
         events   == EventsOf("content-sanitized")
     IN  IF attached # Norm(last.content.str)
         THEN /\ Len(events) = 1
              /\ Get(events[1].data, K_original).s = last.content.str
              /\ Get(events[1].data, K_sanitized).s = attached
         ELSE Len(events) = 0

\* the name of the strategy renderRichContent uses for the options
StrategyUsed(options) ==
  IF options.plainText THEN <<"t","e","x","t">>
  ELSE IF options.allowHtml THEN <<"h","t","m","l">>
  ELSE IF options.markdown THEN <<"m","a","r","k","d","o","w","n">>
  ELSE <<"e","s","c","a","p","e","d">>

\* C6: a successful renderRichContent call emits exactly one
\* content-rendered event, as its last event; the event names the strategy
\* that was used and the length of the content, and holds nothing else.
C6_RenderedEventNamesStrategy ==
  (last.op = "renderRichContent" /\ last.err = "ok") =>
     LET events == EventsOf("content-rendered")
     IN  /\ Len(events) = 1
         /\ log[Len(log)] = events[1]
         /\ \A i \in DOMAIN events[1].data :
               events[1].data[i].k \in { K_type, K_length }
         /\ Get(events[1].data, K_type).s = Lit(StrategyUsed(last.options))
         /\ Get(events[1].data, K_length).n = Length(last.content.str)

\* C7: logSecurityEvent of the structured logger, given an event type that
\* is none of the predefined ones, emits the event with the event type
\* SECURITY, present in the serialized payload.
C7_UnknownTypeBecomesSecurity ==
  (last.op = "logSecurityEvent" /\ last.eventType \notin LogEventType) =>
     /\ Len(log) = 1
     /\ log[1].typed
     /\ log[1].eventType = "SECURITY"

\* the entries of the attributes of the call whose key is href and whose
\* value does not match URL_PATTERN
BadHrefs ==
  SelectSeq(last.options.attributes,
            LAMBDA a : a[1] = A_href /\ ~ URL_PATTERN(Chars(ToStr(a[2]))))

\* C8: createElement given an href that does not match URL_PATTERN still
\* creates the element and appends it as the last child, with no href and
\* with every other allowed attribute applied, and emits one security event
\* whose event type is invalid-url.
C8_BadHrefDroppedElementKept ==
  ( /\ last.op = "createElement"
    /\ last.el = "element"
    /\ LowerCasedTagListed(last.tagName)
    /\ ~ IsTooLong(last.options.text)
    /\ last.options.text.t \in { "string", "undefined" }
    /\ Len(BadHrefs) = 1 ) =>
     /\ last.err = "ok"
     /\ dom.children = Append(last.pre.children, Created)
     /\ ~ HasAttr(Created.attrs, A_href)
     /\ \A i \in DOMAIN last.options.attributes :
           LET a == last.options.attributes[i]
           IN  (a[1] # A_href /\ AttrListed(a[1])) =>
                  <<a[1], ToStr(a[2])>> \in Created.attrs
     /\ Len(EventsOf("invalid-url")) = 1
     /\ EventsOf("invalid-url")[1].typed
     /\ EventsOf("invalid-url")[1].eventType = "invalid-url"

\* the tag argument of a createElement or createSecureInteractiveElement call
TagArg ==
  IF last.op = "createElement" THEN last.tagName ELSE last.config.tag

\* C9 as stated: a tag that is no string, or whose lower-cased form is not
\* in ALLOWED_TAGS, makes createElement and createSecureInteractiveElement
\* fail with the disallowed-tag error and leaves the children of the parent
\* alone; a tag whose lower-cased form is in ALLOWED_TAGS passes the check.
C9_DisallowedTagAlwaysFails ==
  ( /\ last.op \in { "createElement", "createSecureInteractiveElement" }
    /\ last.el = "element" ) =>
     IF LowerCasedTagListed(TagArg)
     THEN last.err # E_Tag
     ELSE last.err = E_Tag /\ dom.children = last.pre.children

\* C9 amended: as stated for createElement and for a truthy config.tag of
\* createSecureInteractiveElement; a falsy config.tag is replaced by 'div'
\* and passes the tag check.
C9_DisallowedTagFailsUnlessDefaulted ==
  ( /\ last.op \in { "createElement", "createSecureInteractiveElement" }
    /\ last.el = "element" ) =>
     IF last.op = "createSecureInteractiveElement" /\ ~ Truthy(TagArg)
     THEN last.err # E_Tag
     ELSE IF LowerCasedTagListed(TagArg)
          THEN last.err # E_Tag
          ELSE last.err = E_Tag /\ dom.children = last.pre.children

C9_Witness ==
  /\ last.op = "createSecureInteractiveElement"
  /\ last.el = "element"
  /\ last.config.tag = T_script
  /\ last.err = E_Tag
  /\ last.pre.children # <<>>
  /\ dom.children = last.pre.children

\* C10: after a successful setSanitizedHTML call the children of the target
\* are exactly the nodes of the fragment the sanitizer returns for the
\* restrictive configuration: no earlier child is left, and no child has an
\* attribute or a tag that this configuration forbids.
C10_OnlyCleanFragmentAttached ==
  (last.op = "setSanitizedHTML" /\ last.err = "ok") =>
     /\ dom.children = SanitizeToNodes(last.content.str, CleanConfig)
     /\ \A i \in DOMAIN dom.children :
           /\ dom.children[i].tag \notin FORBID_TAGS
           /\ \A a \in dom.children[i].attrs :
                 ~ \E e \in FORBID_ATTR : WildMatch(a[1], e)

C10_Witness ==
  /\ last.op = "setSanitizedHTML"
  /\ last.err = "ok"
  /\ last.content = V_link
  /\ last.pre.children # <<>>
  /\ dom.children = <<ElemNode(<<"a">>, {}, Lit(<<"x">>))>>

\* the call the caller is looking at took the sanitized-markup strategy:
\* setSanitizedHTML itself, or renderRichContent with options.allowHtml
\* set and options.plainText, which is tested first, not set
InAllowHtmlMode ==
  \/ last.op = "setSanitizedHTML"
  \/ /\ last.op = "renderRichContent"
     /\ last.options.allowHtml
     /\ ~ last.options.plainText

\* a string of at most MAX_CONTENT_LENGTH characters
IsValidContent(v) == v.t = "string" /\ Length(v.str) <= MAX_CONTENT_LENGTH

\* the nodes of children that hold the text str, or that are an element the
\* markup str describes
NodesCarrying(children, str) ==
  { i \in DOMAIN children :
      \/ Norm(children[i].text) = Norm(str)
      \/ \E j \in DOMAIN ParseHtml(str) :
           ParseHtml(str)[j].kind = "elem" /\ children[i].tag = ParseHtml(str)[j].tag }

\* C11: a call of setSanitizedHTML, or of renderRichContent in allowHtml
\* mode, made with a valid target and a valid content while DOMPurify is
\* not defined fails with the sanitizer-unavailable error; the children and
\* the attributes of the target are those it had before the call, so the
\* content was inserted neither as text nor as markup.
C11_NoSanitizerHardFail ==
  (/\ last.op \in { "setSanitizedHTML", "renderRichContent" }
   /\ InAllowHtmlMode
   /\ ~ last.purify
   /\ last.el = "element"
   /\ IsValidContent(last.content)) =>
     /\ last.err = E_NoSanitizer
     /\ dom.children = last.pre.children
     /\ dom.attrs = last.pre.attrs

\* renderRichContent in allowHtml mode, without the sanitizer, on a target
\* that has children none of which carries the content: it fails and the
\* children are kept
C11_Witness ==
  /\ last.op = "renderRichContent"
  /\ InAllowHtmlMode
  /\ ~ last.purify
  /\ last.el = "element"
  /\ IsValidContent(last.content)
  /\ last.err = E_NoSanitizer
  /\ last.pre.children # <<>>
  /\ NodesCarrying(last.pre.children, last.content.str) = {}
  /\ dom.children = last.pre.children

\* the properties of a details object that JSON.stringify keeps
Kept(details) == SelectSeq(details, LAMBDA e : e.t # "undef")

\* key equals, case-insensitively, one of password, token, secret, key
IsSensitiveKey(k) ==
  \E w \in { <<"p","a","s","s","w","o","r","d">>, <<"t","o","k","e","n">>,
             <<"s","e","c","r","e","t">>, <<"k","e","y">> } :
    ToLowerCase(k) = w

\* the payload out is what the contract allows for the details object in
RECURSIVE Redacted(_, _)
Redacted(in, out) ==
  LET kept == Kept(in)
  IN  /\ Len(out) = Len(kept)
      /\ \A i \in DOMAIN kept :
           LET e == kept[i]
               f == out[i]
           IN  /\ f.k = e.k
               /\ IF IsSensitiveKey(e.k)
                  THEN f.t = "str" /\ Chars(f.s) = <<"[","R","E","D","A","C","T","E","D","]">>
                  ELSE CASE e.t = "str" ->
                              /\ f.t = "str"
                              /\ IF Length(e.s) > 1000
                                 THEN /\ Length(f.s) = 1003
                                      /\ Norm(f.s) = Norm(Substring0(e.s, 1000)
                                                          \o Lit(<<".",".",".">>))
                                 ELSE Norm(f.s) = Norm(e.s)
                         [] e.t = "obj" -> f.t = "obj" /\ Redacted(e.o, f.o)
                         [] OTHER -> f = e

\* C12: the payload that a direct call of Logger.logSecurityEvent emits
\* holds '[REDACTED]' under every key that case-insensitively equals
\* password, token, secret or key, at any depth; every other string longer
\* than 1000 characters is cut to its first 1000 characters followed by
\* '...'; the other strings are emitted unchanged.
C12_PayloadRedactedAndTruncated ==
  (last.op = "logSecurityEvent" /\ Len(log) = 1) =>
     Redacted(last.details, log[1].data)

\* the entity that stands for one character, the character itself if none
EntityOf(c) ==
  CASE c = "&"  -> <<"&","a","m","p",";">>
    [] c = "<"  -> <<"&","l","t",";">>
    [] c = ">"  -> <<"&","g","t",";">>
    [] c = "\"" -> <<"&","q","u","o","t",";">>
    [] c = "'"  -> <<"&","#","0","3","9",";">>
    [] OTHER    -> <<c>>

\* the entities of the characters of cs, one after the other
RECURSIVE EntitiesOf(_)
EntitiesOf(cs) ==
  IF cs = <<>> THEN <<>> ELSE EntityOf(Head(cs)) \o EntitiesOf(Tail(cs))

\* str with each character replaced independently of the others
EachCharacterEscaped(str) ==
  [i \in DOMAIN str |-> [s |-> EntitiesOf(str[i].s), n |-> str[i].n]]

ContainsAmpersand(str) == \E i \in DOMAIN str : "&" \in Range(str[i].s)

\* two strings that differ in length or in some character
Differ(a, b) == Length(a) # Length(b) \/ Chars(a) # Chars(b)

\* C13: escapeHtml returns its argument with each character replaced
\* independently (the ampersand, the two angle brackets, the double and the
\* single quote by their entities, any other character by itself), so the
\* ampersand of an entity it has just written is not escaped again; and
\* escapeHtml applied to the result for a string that contains an ampersand
\* returns a string that differs from that result.
C13_EscapesEachCharacterOnce ==
  (last.op = "escapeHtml" /\ last.err = "ok") =>
     /\ last.ret.t = "string"
     /\ last.ret.str = EachCharacterEscaped(last.str.str)
     /\ (last.times = 2 /\ ContainsAmpersand(last.first.str)) =>
           Differ(last.ret.str, last.str.str)

\* escapeHtml applied twice to <&'">a: the first result holds the five
\* entities, the second one differs from it
C13_Witness ==
  /\ last.op = "escapeHtml"
  /\ last.times = 2
  /\ last.first = V_special
  /\ Chars(last.str.str) =
       <<"&","l","t",";", "&","a","m","p",";", "&","#","0","3","9",";",
         "&","q","u","o","t",";", "&","g","t",";", "a">>
  /\ Differ(last.ret.str, last.str.str)

\* C14: renderRichContent in the default mode, called with a valid target
\* and a content of at most MAX_CONTENT_LENGTH characters, fails with the
\* too-long error and leaves the container unchanged when the escaped
\* content is longer than MAX_CONTENT_LENGTH; otherwise it succeeds, the
\* container has exactly one child more, the children it had are in place
\* and the last child is a text node that holds the escaped content.
C14_EscapedTextCheckedAndAppendedOnce ==
  (/\ last.op = "renderRichContent"
   /\ IsDefaultMode(last.options)
   /\ last.el = "element"
   /\ IsValidContent(last.content)) =>
     LET escaped == EachCharacterEscaped(last.content.str)
         n       == Len(last.pre.children)
     IN  IF Length(escaped) > MAX_CONTENT_LENGTH
         THEN /\ last.err = E_TooLong
              /\ dom.children = last.pre.children
              /\ dom.attrs = last.pre.attrs
         ELSE /\ last.err = "ok"
              /\ Len(dom.children) = n + 1
              /\ SubSeq(dom.children, 1, n) = last.pre.children
              /\ dom.children[n + 1].kind = "text"
              /\ dom.children[n + 1].text = escaped

\* a content of 1001 ampersands rendered in the default mode into a
\* container that has a child: the second length check fails the call
C14_Witness ==
  /\ last.op = "renderRichContent"
  /\ IsDefaultMode(last.options)
  /\ last.el = "element"
  /\ Length(last.content.str) = 1001
  /\ Length(EachCharacterEscaped(last.content.str)) = MAX_CONTENT_LENGTH + 5
  /\ last.err = E_TooLong
  /\ last.pre.children # <<>>
  /\ dom.children = last.pre.children

====
